---- MODULE Spec2Model ----
(***************************************************************************)
(* Model of the GraphQL client of src/graphql.go: NewClient, Query, Mutate *)
(* and Do.  A call of Do is a pipeline of stages (encode the request,      *)
(* build the request, transport, status check, envelope decode, data       *)
(* decode, errors check); each stage is one action, so that calls made     *)
(* from several goroutines interleave between stages.                      *)
(***************************************************************************)
EXTENDS Integers, Sequences, FiniteSets, TLC

\* ------------------------------------------------------------------ bounds
NumCalls == 2          \* goroutines that may call the client
MaxErrors == 2         \* longest "errors" array a response carries

\* --------------------------------------------------------------- constants
StatusOK == 200        \* http.StatusOK

Calls == 1..NumCalls

\* ------------------------------------------------------- response bodies
\* The members of the destination shape { login, id }, in selection order.
Members == <<"login", "id">>
MemberSet == {Members[i] : i \in 1..Len(Members)}

\* What a response object carries for one member.
MemberJSON == {"absent", "null", "value"}

NoObject == [m \in MemberSet |-> "absent"]

\* The top-level "data" field: absent, null, a non-object value, an object.
DataJSON ==
    {[kind |-> k, obj |-> NoObject] : k \in {"absent", "null", "scalar"}}
    \cup {[kind |-> "object", obj |-> o] : o \in [MemberSet -> MemberJSON]}

Location == [line |-> 1, column |-> 2]

\* One element of the "errors" array, as JSON.
ErrJSON ==
    {[hasMessage |-> FALSE, message |-> "", locations |-> <<>>],
     [hasMessage |-> TRUE, message |-> "x", locations |-> <<Location>>],
     [hasMessage |-> TRUE, message |-> "y", locations |-> <<>>]}

SeqsUpTo(S, n) == UNION {[1..k -> S] : k \in 0..n}

\* The top-level "errors" field: absent, null, not an array of error objects,
\* or an array of error objects.
ErrorsJSON ==
    {[kind |-> k, items |-> <<>>] : k \in {"absent", "null", "mistyped"}}
    \cup {[kind |-> "array", items |-> s] : s \in SeqsUpTo(ErrJSON, MaxErrors)}

AbsentData == [kind |-> "absent", obj |-> NoObject]
AbsentErrors == [kind |-> "absent", items |-> <<>>]

\* A response body: not JSON at all ("syntax"), a JSON value that is neither
\* an object nor null ("scalar"), the literal null, or an object.
Bodies ==
    {[form |-> f, data |-> AbsentData, errors |-> AbsentErrors] :
        f \in {"syntax", "scalar", "null"}}
    \cup {[form |-> "object", data |-> d, errors |-> e] :
        d \in DataJSON, e \in ErrorsJSON}

EmptyBody == [form |-> "syntax", data |-> AbsentData, errors |-> AbsentErrors]

StatusCodes == {200, 201, 202, 204, 404, 500}

\* resp.Status, the status line text the server sent with the code.
StatusText(code) ==
    CASE code = 200 -> "200 OK"
      [] code = 201 -> "201 Created"
      [] code = 202 -> "202 Accepted"
      [] code = 204 -> "204 No Content"
      [] code = 404 -> "404 Not Found"
      [] OTHER -> "500 Internal Server Error"

\* What c.httpClient.Do hands back: an error, or a response.
TransportFailure ==
    [err |-> TRUE, StatusCode |-> 0, Status |-> "", Body |-> EmptyBody]

Response(code, body) ==
    [err |-> FALSE, StatusCode |-> code, Status |-> StatusText(code), Body |-> body]

AllResponses == {Response(c, b) : c \in StatusCodes, b \in Bodies}

\* The small set of responses a test server answers with when several calls
\* run at once: partial success, data only, errors only, a rejected status,
\* a body that is not JSON.
FullObject == [m \in MemberSet |-> "value"]
ErrX == [hasMessage |-> TRUE, message |-> "x", locations |-> <<Location>>]
ErrY == [hasMessage |-> TRUE, message |-> "y", locations |-> <<>>]

FewResponses ==
    {Response(200, [form |-> "object",
                    data |-> [kind |-> "object", obj |-> FullObject],
                    errors |-> [kind |-> "array", items |-> <<ErrX>>]]),
     Response(200, [form |-> "object",
                    data |-> [kind |-> "object", obj |-> FullObject],
                    errors |-> AbsentErrors]),
     Response(200, [form |-> "object",
                    data |-> [kind |-> "null", obj |-> NoObject],
                    errors |-> [kind |-> "array", items |-> <<ErrY>>]]),
     Response(404, EmptyBody)}

\* The responses a server may deliver.
Responses(srv) == IF srv = "test" THEN FewResponses ELSE AllResponses

\* ------------------------------------------------------------ the errors type
\* json decoding of one element of "errors" into the element struct of the
\* errors type: a missing message leaves the zero value "".
DecodeErr(j) ==
    [Message |-> IF j.hasMessage THEN j.message ELSE "",
     Locations |-> [i \in 1..Len(j.locations) |->
                      [Line |-> j.locations[i].line,
                       Column |-> j.locations[i].column]]]

DecodeErrs(items) == [i \in 1..Len(items) |-> DecodeErr(items[i])]

\* func (e errors) Error() string.  Indexing an empty slice panics.
ErrorLast(e) == IF Len(e) = 0 THEN "panic" ELSE e[Len(e)].Message

Error(e) == IF Len(e) = 0 THEN "panic" ELSE e[1].Message

\* ------------------------------------------------------------ the envelope
\* var out struct { Data *json.RawMessage; Errors errors }
NilData == [isNil |-> TRUE, raw |-> AbsentData]
ZeroEnvelope == [Data |-> NilData, Errors |-> <<>>]

\* json.NewDecoder(resp.Body).Decode(&out): fails on a body that is not JSON,
\* on a JSON value that is neither an object nor null, and on an "errors"
\* field that does not fit the errors type.  A missing field, or null, leaves
\* the zero value; "data" is a raw message, so any JSON value fits it.
ParseEnvelopeLenient(body) ==
    IF body.form \in {"syntax", "scalar"}
    THEN [err |-> TRUE, out |-> ZeroEnvelope]
    ELSE [err |-> FALSE,
          out |-> [Data |-> IF body.data.kind \in {"absent", "null"}
                            THEN NilData
                            ELSE [isNil |-> FALSE, raw |-> body.data],
                   Errors |-> DecodeErrs(body.errors.items)]]

ParseEnvelope(body) ==
    IF body.form \in {"syntax", "scalar"} \/ body.errors.kind = "mistyped"
    THEN [err |-> TRUE, out |-> ZeroEnvelope]
    ELSE [err |-> FALSE,
          out |-> [Data |-> IF body.data.kind \in {"absent", "null"}
                            THEN NilData
                            ELSE [isNil |-> FALSE, raw |-> body.data],
                   Errors |-> DecodeErrs(body.errors.items)]]

\* ------------------------------------------------------------ the decoder
\* The content of one member of the destination shape.
MemberValues == {"zero", "old", "new"}
Shapes == [MemberSet -> MemberValues]

\* Decoding of the members from index i on, in selection order, into res.
\* Replace mode: null resets the member, a missing key is a mismatch.
\* Merge mode: only an explicit value changes the member.
RECURSIVE DecodeFrom(_, _, _, _)
DecodeFrom(i, obj, res, mrg) ==
    IF i > Len(Members) THEN [err |-> FALSE, res |-> res]
    ELSE LET m == Members[i]
             j == obj[m]
         IN  CASE j = "value" ->
                    DecodeFrom(i + 1, obj, [res EXCEPT ![m] = "new"], mrg)
               [] j = "null" ->
                    DecodeFrom(i + 1, obj,
                               IF mrg THEN res ELSE [res EXCEPT ![m] = "zero"],
                               mrg)
               [] OTHER ->
                    IF mrg THEN DecodeFrom(i + 1, obj, res, mrg)
                    ELSE [err |-> TRUE, res |-> res]

\* jsonutil.UnmarshalGraphQL(data, res)
UnmarshalGraphQL(raw, res) ==
    CASE raw.kind = "object" -> DecodeFrom(1, raw.obj, res, FALSE)
      [] raw.kind = "null" ->
            [err |-> FALSE, res |-> [m \in MemberSet |-> "zero"]]
      [] OTHER -> [err |-> TRUE, res |-> res]

\* jsonutil.MergeUnmarshalGraphQL(data, res)
MergeUnmarshalGraphQL(raw, res) ==
    CASE raw.kind = "object" -> DecodeFrom(1, raw.obj, res, TRUE)
      [] raw.kind = "null" -> [err |-> FALSE, res |-> res]
      [] OTHER -> [err |-> TRUE, res |-> res]

\* ------------------------------------------------------------ returned errors
NoList == <<>>
Err(kind) == [kind |-> kind, status |-> "", body |-> EmptyBody, list |-> NoList]
Nil == Err("nil")
Pending == Err("pending")

\* fmt.Errorf("non-200 OK status code: %v body: %q", resp.Status, body)
StatusError(status, body) ==
    [kind |-> "status", status |-> status, body |-> body, list |-> NoList]

\* return out.Errors
Aggregate(e) ==
    [kind |-> "aggregate", status |-> "", body |-> EmptyBody, list |-> e]

\* ------------------------------------------------------------ the state
VARIABLES
    client,      \* the Client: url and httpClient
    server,      \* the server behind the transport: "any" or "test"
    plan,        \* per goroutine: the call it makes, with its arguments
    pc,          \* per call: the stage of Do it is at
    query,       \* per call: Do's query argument, the document sent
    merge,       \* per call: Do's merge argument
    variables,   \* per call: whether json can encode the variables
    ctx,         \* per call: the context passed in
    resp,        \* per call: what c.httpClient.Do returned
    out,         \* per call: the decoded envelope
    dest,        \* per call: the destination shape res points to
    dest0,       \* per call: the destination's content before the call
    ret,         \* per call: the error Do returned
    log          \* per call: the collaborators Do invoked, in order

vars == <<client, server, plan, pc, query, merge, variables, ctx, resp, out,
          dest, dest0, ret, log>>

callVars == <<query, merge, variables, ctx>>

URLs == {"http://host/graphql", "://bad"}
HTTPClients == {"nil", "custom"}

\* func NewClient(url string, httpClient *http.Client) *Client
NewClient(url, httpClient) ==
    [url |-> url,
     httpClient |-> IF httpClient = "nil" THEN "http.DefaultClient" ELSE httpClient]

\* The documents built from the destination shape { login, id }.
QueryDocument == "query{login,id}"
MutationDocument == "mutation{login,id}"
RawDocument == "{login,id}"

Variables == {"encodable", "unsupported"}
Contexts == {"background", "nil"}

\* What a goroutine is going to call, and with which arguments.
NoPlan ==
    [entry |-> "none", merge |-> FALSE, variables |-> "encodable", ctx |-> "background"]

Plans ==
    {[entry |-> e, merge |-> FALSE, variables |-> v, ctx |-> c] :
        e \in {"Query", "Mutate"}, v \in Variables, c \in Contexts}
    \cup {[entry |-> "Do", merge |-> m, variables |-> v, ctx |-> c] :
        m \in BOOLEAN, v \in Variables, c \in Contexts}

InitCalls ==
    /\ client \in {NewClient(u, h) : u \in URLs, h \in HTTPClients}
    /\ pc = [p \in Calls |-> "idle"]
    /\ query = [p \in Calls |-> ""]
    /\ merge = [p \in Calls |-> FALSE]
    /\ variables = [p \in Calls |-> "encodable"]
    /\ ctx = [p \in Calls |-> "background"]
    /\ resp = [p \in Calls |-> TransportFailure]
    /\ out = [p \in Calls |-> ZeroEnvelope]
    /\ dest0 \in [Calls -> [MemberSet -> {"zero", "old"}]]
    /\ dest = dest0
    /\ ret = [p \in Calls |-> Pending]
    /\ log = [p \in Calls |-> <<>>]

\* One goroutine calls, with any arguments; the server answers anything.
Init ==
    /\ InitCalls
    /\ server = "any"
    /\ plan \in [Calls -> Plans \cup {NoPlan}]
    /\ \A p \in Calls :
         IF p = 1 THEN plan[p] \in Plans
         ELSE plan[p] = NoPlan /\ dest0[p] = [m \in MemberSet |-> "zero"]

\* Every goroutine calls, with a request that can be sent: the first through
\* Query or Mutate, the others through Do in either mode.  The test server
\* answers from a few responses.
InitConc ==
    /\ InitCalls
    /\ server = "test"
    /\ client = NewClient("http://host/graphql", "nil")
    /\ dest0 = [p \in Calls |-> [m \in MemberSet |-> "old"]]
    /\ plan \in [Calls -> Plans]
    /\ \A p \in Calls :
         /\ plan[p].variables = "encodable"
         /\ plan[p].ctx = "background"
         /\ plan[p].entry \in (IF p = 1 THEN {"Query", "Mutate"} ELSE {"Do"})

Return(p, e) ==
    /\ ret' = [ret EXCEPT ![p] = e]
    /\ pc' = [pc EXCEPT ![p] = "done"]

Goto(p, stage) ==
    /\ pc' = [pc EXCEPT ![p] = stage]
    /\ UNCHANGED ret

Logged(p, what) == log' = [log EXCEPT ![p] = Append(@, what)]

\* The entry of Do with its arguments bound.
Enter(p, doc, mrg) ==
    /\ pc[p] = "idle"
    /\ query' = [query EXCEPT ![p] = doc]
    /\ merge' = [merge EXCEPT ![p] = mrg]
    /\ variables' = [variables EXCEPT ![p] = plan[p].variables]
    /\ ctx' = [ctx EXCEPT ![p] = plan[p].ctx]
    /\ Goto(p, "encode")
    /\ UNCHANGED <<client, server, plan, resp, out, dest, dest0, log>>

\* func (c *Client) Query: c.Do(ctx, constructQuery(q, variables), q, false, variables)
Query(p) ==
    /\ plan[p].entry = "Query"
    /\ Enter(p, QueryDocument, FALSE)

\* func (c *Client) Mutate: c.Do(ctx, constructMutation(m, variables), m, false, variables)
Mutate(p) ==
    /\ plan[p].entry = "Mutate"
    /\ Enter(p, MutationDocument, FALSE)

\* func (c *Client) Do called directly, in either mode.
Do(p) ==
    /\ plan[p].entry = "Do"
    /\ Enter(p, RawDocument, plan[p].merge)

\* err := json.NewEncoder(&buf).Encode(in)
Encode(p) ==
    /\ pc[p] = "encode"
    /\ Logged(p, "json.Encode")
    /\ IF variables[p] = "unsupported"
       THEN Return(p, Err("encode"))
       ELSE Goto(p, "request")
    /\ UNCHANGED <<client, server, plan, callVars, resp, out, dest, dest0>>

\* req, err := http.NewRequestWithContext(ctx, http.MethodPost, c.url, &buf)
NewRequest(p) ==
    /\ pc[p] = "request"
    /\ Logged(p, "http.NewRequest")
    /\ IF ctx[p] = "nil" \/ client.url = "://bad"
       THEN Return(p, Err("request"))
       ELSE Goto(p, "transport")
    /\ UNCHANGED <<client, server, plan, callVars, resp, out, dest, dest0>>

\* resp, err := c.httpClient.Do(req), sent once more after a failure.
TransportRetry(p) ==
    /\ pc[p] = "transport"
    /\ \E r \in Responses(server) \cup {TransportFailure} :
         /\ resp' = [resp EXCEPT ![p] = r]
         /\ IF r.err
            THEN /\ log' = [log EXCEPT ![p] = @ \o <<"httpClient.Do", "httpClient.Do">>]
                 /\ Return(p, Err("transport"))
            ELSE /\ Logged(p, "httpClient.Do")
                 /\ Goto(p, "status")
    /\ UNCHANGED <<client, server, plan, callVars, out, dest, dest0>>

\* resp, err := c.httpClient.Do(req)
Transport(p) ==
    /\ pc[p] = "transport"
    /\ Logged(p, "httpClient.Do")
    /\ \E r \in Responses(server) \cup {TransportFailure} :
         /\ resp' = [resp EXCEPT ![p] = r]
         /\ IF r.err THEN Return(p, Err("transport")) ELSE Goto(p, "status")
    /\ UNCHANGED <<client, server, plan, callVars, out, dest, dest0>>

\* if resp.StatusCode < 200 || resp.StatusCode > 299 { ... }
CheckStatus2xx(p) ==
    /\ pc[p] = "status"
    /\ IF resp[p].StatusCode < 200 \/ resp[p].StatusCode > 299
       THEN /\ Logged(p, "io.ReadAll")
            /\ Return(p, StatusError(resp[p].Status, resp[p].Body))
       ELSE /\ Goto(p, "envelope")
            /\ UNCHANGED log
    /\ UNCHANGED <<client, server, plan, callVars, resp, out, dest, dest0>>

\* if resp.StatusCode >= 500 { ... }
CheckStatus5xx(p) ==
    /\ pc[p] = "status"
    /\ IF resp[p].StatusCode >= 500
       THEN /\ Logged(p, "io.ReadAll")
            /\ Return(p, StatusError(resp[p].Status, resp[p].Body))
       ELSE /\ Goto(p, "envelope")
            /\ UNCHANGED log
    /\ UNCHANGED <<client, server, plan, callVars, resp, out, dest, dest0>>

\* if resp.StatusCode != http.StatusOK { body, _ := io.ReadAll(resp.Body); ... }
CheckStatus(p) ==
    /\ pc[p] = "status"
    /\ IF resp[p].StatusCode # StatusOK
       THEN /\ Logged(p, "io.ReadAll")
            /\ Return(p, StatusError(resp[p].Status, resp[p].Body))
       ELSE /\ Goto(p, "envelope")
            /\ UNCHANGED log
    /\ UNCHANGED <<client, server, plan, callVars, resp, out, dest, dest0>>

\* The envelope kept in one place shared by all calls.
DecodeEnvelopeShared(p) ==
    /\ pc[p] = "envelope"
    /\ Logged(p, "json.Decode")
    /\ LET parsed == ParseEnvelope(resp[p].Body)
       IN  IF parsed.err
           THEN /\ Return(p, Err("envelope"))
                /\ UNCHANGED out
           ELSE /\ out' = [q \in Calls |-> parsed.out]
                /\ Goto(p, "data")
    /\ UNCHANGED <<client, server, plan, callVars, resp, dest, dest0>>

\* err = json.NewDecoder(resp.Body).Decode(&out)
DecodeEnvelope(p) ==
    /\ pc[p] = "envelope"
    /\ Logged(p, "json.Decode")
    /\ LET parsed == ParseEnvelope(resp[p].Body)
       IN  IF parsed.err
           THEN /\ Return(p, Err("envelope"))
                /\ UNCHANGED out
           ELSE /\ out' = [out EXCEPT ![p] = parsed.out]
                /\ Goto(p, "data")
    /\ UNCHANGED <<client, server, plan, callVars, resp, dest, dest0>>

\* The decoder for the call's mode.
Decoder(p) == IF merge[p] THEN "MergeUnmarshalGraphQL" ELSE "UnmarshalGraphQL"

Decoded(p, raw) ==
    IF merge[p] THEN MergeUnmarshalGraphQL(raw, dest[p])
    ELSE UnmarshalGraphQL(raw, dest[p])

\* The decoder run whether or not out.Data is nil.
DecodeDataAlways(p) ==
    /\ pc[p] = "data"
    /\ LET raw == IF out[p].Data.isNil
                  THEN [kind |-> "null", obj |-> NoObject]
                  ELSE out[p].Data.raw
           d == Decoded(p, raw)
       IN  /\ Logged(p, Decoder(p))
           /\ dest' = [dest EXCEPT ![p] = d.res]
           /\ IF d.err THEN Return(p, Err("decode")) ELSE Goto(p, "errors")
    /\ UNCHANGED <<client, server, plan, callVars, resp, out, dest0>>

\* The decoder skipped when the envelope carries errors.
DecodeDataUnlessErrors(p) ==
    /\ pc[p] = "data"
    /\ IF ~out[p].Data.isNil /\ Len(out[p].Errors) = 0
       THEN LET d == Decoded(p, out[p].Data.raw)
            IN  /\ Logged(p, Decoder(p))
                /\ dest' = [dest EXCEPT ![p] = d.res]
                /\ IF d.err THEN Return(p, Err("decode")) ELSE Goto(p, "errors")
       ELSE /\ Goto(p, "errors")
            /\ UNCHANGED <<dest, log>>
    /\ UNCHANGED <<client, server, plan, callVars, resp, out, dest0>>

\* The errors list looked at before the data is decoded.
DecodeDataAfterErrors(p) ==
    /\ pc[p] = "data"
    /\ IF Len(out[p].Errors) > 0
       THEN /\ Return(p, Aggregate(out[p].Errors))
            /\ UNCHANGED <<dest, log>>
       ELSE IF ~out[p].Data.isNil
            THEN LET d == Decoded(p, out[p].Data.raw)
                 IN  /\ Logged(p, Decoder(p))
                     /\ dest' = [dest EXCEPT ![p] = d.res]
                     /\ IF d.err THEN Return(p, Err("decode")) ELSE Goto(p, "errors")
            ELSE /\ Goto(p, "errors")
                 /\ UNCHANGED <<dest, log>>
    /\ UNCHANGED <<client, server, plan, callVars, resp, out, dest0>>

\* if out.Data != nil { err = jsonutil.[Merge]UnmarshalGraphQL(*out.Data, res) ... }
DecodeData(p) ==
    /\ pc[p] = "data"
    /\ IF ~out[p].Data.isNil
       THEN LET d == Decoded(p, out[p].Data.raw)
            IN  /\ Logged(p, Decoder(p))
                /\ dest' = [dest EXCEPT ![p] = d.res]
                /\ IF d.err THEN Return(p, Err("decode")) ELSE Goto(p, "errors")
       ELSE /\ Goto(p, "errors")
            /\ UNCHANGED <<dest, log>>
    /\ UNCHANGED <<client, server, plan, callVars, resp, out, dest0>>

\* return out.Errors, without the length check.
CheckErrorsNoGuard(p) ==
    /\ pc[p] = "errors"
    /\ Return(p, Aggregate(out[p].Errors))
    /\ UNCHANGED <<client, server, plan, callVars, resp, out, dest, dest0, log>>

\* if len(out.Errors) > 0 { return out.Errors }; return nil
CheckErrors(p) ==
    /\ pc[p] = "errors"
    /\ IF Len(out[p].Errors) > 0
       THEN Return(p, Aggregate(out[p].Errors))
       ELSE Return(p, Nil)
    /\ UNCHANGED <<client, server, plan, callVars, resp, out, dest, dest0, log>>

Next ==
    \E p \in Calls :
        \/ Query(p)
        \/ Mutate(p)
        \/ Do(p)
        \/ Encode(p)
        \/ NewRequest(p)
        \/ Transport(p)
        \/ CheckStatus(p)
        \/ DecodeEnvelope(p)
        \/ DecodeData(p)
        \/ CheckErrors(p)

\* Do as one sequential function of its inputs: the client c, the variables v,
\* the context cx, the mode mrg, the transport's answer r and the destination's
\* prior content d0.  The result is the returned error and the destination.
DoAlone(c, v, cx, mrg, r, d0) ==
    IF v = "unsupported" THEN [ret |-> Err("encode"), dest |-> d0]
    ELSE IF cx = "nil" \/ c.url = "://bad" THEN [ret |-> Err("request"), dest |-> d0]
    ELSE IF r.err THEN [ret |-> Err("transport"), dest |-> d0]
    ELSE IF r.StatusCode # StatusOK
         THEN [ret |-> StatusError(r.Status, r.Body), dest |-> d0]
    ELSE LET parsed == ParseEnvelope(r.Body)
             o == parsed.out
             d == IF o.Data.isNil THEN [err |-> FALSE, res |-> d0]
                  ELSE IF mrg THEN MergeUnmarshalGraphQL(o.Data.raw, d0)
                  ELSE UnmarshalGraphQL(o.Data.raw, d0)
         IN  IF parsed.err THEN [ret |-> Err("envelope"), dest |-> d0]
             ELSE IF d.err THEN [ret |-> Err("decode"), dest |-> d.res]
             ELSE IF Len(o.Errors) > 0
                  THEN [ret |-> Aggregate(o.Errors), dest |-> d.res]
             ELSE [ret |-> Nil, dest |-> d.res]

Spec == Init /\ [][Next]_vars

SpecConc == InitConc /\ [][Next]_vars

\* ------------------------------------------------------------ observations
Done(p) == pc[p] = "done"

RECURSIVE Count(_, _)
Count(sq, x) ==
    IF sq = <<>> THEN 0
    ELSE (IF Head(sq) = x THEN 1 ELSE 0) + Count(Tail(sq), x)

\* Transport invocations of the call.
Sent(p) == Count(log[p], "httpClient.Do")

\* Invocations of the envelope parser and of the data decoder.
Parsed(p) == Count(log[p], "json.Decode")
DecoderRuns(p) ==
    Count(log[p], "UnmarshalGraphQL") + Count(log[p], "MergeUnmarshalGraphQL")

\* The call has returned and the transport had handed it a response.
Answered(p) == Done(p) /\ Sent(p) > 0 /\ ~resp[p].err

Body(p) == resp[p].Body
Accepted(p) == Answered(p) /\ resp[p].StatusCode = StatusOK

\* The error entries the body carries, and the message of one of them.
Items(p) == Body(p).errors.items
MessageOf(j) == IF j.hasMessage THEN j.message ELSE ""

\* The outer object is one the envelope parser takes.
WellFormed(b) == b.form \in {"null", "object"} /\ b.errors.kind # "mistyped"

\* The body carries a data payload that is not null.
HasData(b) == b.form = "object" /\ b.data.kind \in {"scalar", "object"}

\* What the call's decoder makes of the body's data and the prior destination.
DataDecode(p) ==
    IF merge[p] THEN MergeUnmarshalGraphQL(Body(p).data, dest0[p])
    ELSE UnmarshalGraphQL(Body(p).data, dest0[p])

\* ------------------------------------------------------------ the claims

\* C1: partial success.  A call whose response has the accepted status, a
\* well-formed envelope, a non-null data payload that decodes without error
\* and a non-empty errors list has invoked the decoder once on the
\* destination, which holds the decoded content, and has returned the
\* aggregate error carrying the errors list.
C1_PartialSuccess ==
    \A p \in Calls :
        (/\ Accepted(p)
         /\ WellFormed(Body(p))
         /\ HasData(Body(p))
         /\ ~DataDecode(p).err
         /\ Len(Items(p)) > 0)
        => /\ DecoderRuns(p) = 1
           /\ Count(log[p], Decoder(p)) = 1
           /\ dest[p] = DataDecode(p).res
           /\ ret[p].kind = "aggregate"
           /\ ret[p].list = DecodeErrs(Items(p))

C1_Witness ==
    \E p \in Calls :
        /\ Accepted(p) /\ WellFormed(Body(p)) /\ HasData(Body(p))
        /\ ~DataDecode(p).err
        /\ Len(Items(p)) > 0
        /\ dest[p] # dest0[p]
        /\ ret[p].kind = "aggregate"

\* C2: error aggregation.  The message of a returned aggregate is the message
\* of the first entry of the body's errors list, and the aggregate holds every
\* entry of that list in the original order.
C2_Aggregation ==
    \A p \in Calls :
        ret[p].kind = "aggregate"
        => /\ Len(Items(p)) >= 1
           /\ Error(ret[p].list) = MessageOf(Items(p)[1])
           /\ Len(ret[p].list) = Len(Items(p))
           /\ \A i \in 1..Len(Items(p)) :
                /\ ret[p].list[i].Message = MessageOf(Items(p)[i])
                /\ Len(ret[p].list[i].Locations) = Len(Items(p)[i].locations)

C2_Witness ==
    \E p \in Calls :
        /\ ret[p].kind = "aggregate"
        /\ Len(ret[p].list) = 2
        /\ Items(p)[1].message = "x"
        /\ Items(p)[2].message = "y"
        /\ Error(ret[p].list) = "x"

\* C3: an empty error list never produces an aggregate.  A returned aggregate
\* has at least one element, so Error() never indexes an empty list; and with
\* the accepted status, a well-formed envelope, a successful or skipped decode
\* and an empty or absent errors list the call returns nil.
C3_NoEmptyAggregate ==
    \A p \in Calls :
        /\ ret[p].kind = "aggregate"
           => Len(ret[p].list) >= 1 /\ Error(ret[p].list) # "panic"
        /\ (/\ Accepted(p)
            /\ WellFormed(Body(p))
            /\ (HasData(Body(p)) => ~DataDecode(p).err)
            /\ Len(Items(p)) = 0)
           => ret[p] = Nil

C3_Witness ==
    \E p \in Calls :
        /\ Accepted(p)
        /\ Body(p).errors.kind = "array"
        /\ Len(Items(p)) = 0
        /\ HasData(Body(p))
        /\ ret[p] = Nil

\* C4: a response whose status is not 2xx makes the call return the status
\* error with the response's status text and raw body, without envelope
\* decoding: neither the envelope parser nor the data decoder is invoked, the
\* destination is unchanged and no aggregate is made of the body's errors.
C4_RejectedStatus ==
    \A p \in Calls :
        (Answered(p) /\ (resp[p].StatusCode < 200 \/ resp[p].StatusCode > 299))
        => /\ ret[p] = StatusError(resp[p].Status, resp[p].Body)
           /\ Parsed(p) = 0
           /\ DecoderRuns(p) = 0
           /\ dest[p] = dest0[p]
           /\ ret[p].kind # "aggregate"

C4_Witness ==
    \E p \in Calls :
        /\ Answered(p)
        /\ resp[p].StatusCode = 404
        /\ HasData(Body(p))
        /\ Len(Items(p)) > 0
        /\ ret[p].kind = "status"
        /\ ret[p].status = "404 Not Found"

\* C5 as stated: for every response whose status code is in 200..299 the call
\* does not return the status error and goes on to parse the envelope.
C5_Original ==
    \A p \in Calls :
        (Answered(p) /\ resp[p].StatusCode >= 200 /\ resp[p].StatusCode <= 299)
        => ret[p].kind # "status" /\ Parsed(p) = 1

\* C5 as amended: the status error is returned exactly for the status codes
\* other than 200; a response with status code 200 is never answered with the
\* status error and has its envelope parsed, and every other code, the 2xx
\* codes 201, 202 and 204 included, is answered with the status error.
C5_Only200Accepted ==
    \A p \in Calls :
        Answered(p)
        => /\ (ret[p].kind = "status") <=> (resp[p].StatusCode # StatusOK)
           /\ resp[p].StatusCode = StatusOK => Parsed(p) = 1
           /\ resp[p].StatusCode # StatusOK => Parsed(p) = 0

C5_Witness ==
    \E p \in Calls :
        /\ Answered(p)
        /\ resp[p].StatusCode = 200
        /\ Parsed(p) = 1
        /\ ret[p].kind \notin {"status", "pending"}

\* C6 as stated: with the accepted status, a body that is not a JSON object,
\* or whose top-level data or errors field is missing or of the wrong type,
\* makes the call return the envelope decode error before the data decoder
\* is invoked, with the destination unchanged and no aggregate.
C6_Original ==
    \A p \in Calls :
        (/\ Accepted(p)
         /\ \/ Body(p).form # "object"
            \/ Body(p).data.kind \in {"absent", "scalar"}
            \/ Body(p).errors.kind \in {"absent", "mistyped"})
        => /\ ret[p].kind = "envelope"
           /\ DecoderRuns(p) = 0
           /\ dest[p] = dest0[p]

\* C6 as amended: with the accepted status, the call returns the envelope
\* decode error exactly when the body is not JSON, is a JSON value that is
\* neither an object nor null, or has a top-level errors field that does not
\* fit the errors type; it then returns before the data
\* decoder is invoked, with the destination unchanged and no aggregate.  A
\* missing data or errors field, a null body and a data field of any JSON type
\* are not envelope errors.
C6_EnvelopeErrors ==
    \A p \in Calls :
        Accepted(p)
        => /\ (ret[p].kind = "envelope")
              <=> (Body(p).form \in {"syntax", "scalar"}
                   \/ Body(p).errors.kind = "mistyped")
           /\ ret[p].kind = "envelope"
              => /\ Parsed(p) = 1
                 /\ DecoderRuns(p) = 0
                 /\ dest[p] = dest0[p]
                 /\ ret[p].list = <<>>

C6_Witness ==
    \E p \in Calls :
        /\ Accepted(p)
        /\ Body(p).errors.kind = "mistyped"
        /\ HasData(Body(p))
        /\ ret[p].kind = "envelope"

\* C7: no internal retry.  A call invokes the transport at most once; it has
\* invoked it exactly once when it returns after request encoding and request
\* construction succeeded, and not at all when one of them failed; a call that
\* returned a transport, status, envelope or decode error sent one request.
C7_NoRetry ==
    \A p \in Calls :
        /\ Sent(p) <= 1
        /\ Done(p)
           => Sent(p) = (IF /\ plan[p].variables = "encodable"
                            /\ plan[p].ctx = "background"
                            /\ client.url # "://bad"
                         THEN 1 ELSE 0)
        /\ ret[p].kind \in {"transport", "status", "envelope", "decode"}
           => Sent(p) = 1

C7_Witness ==
    \E p \in Calls :
        /\ Done(p)
        /\ ret[p].kind = "transport"
        /\ Sent(p) = 1

\* What the call p produces when it runs alone on its own inputs.
Alone(p) ==
    DoAlone(client, plan[p].variables, plan[p].ctx,
            IF plan[p].entry = "Do" THEN plan[p].merge ELSE FALSE,
            resp[p], dest0[p])

\* The state that belongs to the call p.
CallState(p) ==
    <<pc[p], query[p], merge[p], variables[p], ctx[p], resp[p], out[p],
      dest[p], ret[p], log[p]>>

\* C8: concurrent calls do not race.  No step of a call writes the client's
\* fields; a step changes the state of one call only; and every call that has
\* returned holds the error and the destination content that the same call
\* produces when run alone against the same transport response.
C8_NoRace ==
    /\ [][/\ client' = client
          /\ \E p \in Calls : \A q \in Calls \ {p} : CallState(q)' = CallState(q)]_vars
    /\ [](\A p \in Calls :
            Done(p) => ret[p] = Alone(p).ret /\ dest[p] = Alone(p).dest)

C8_Witness ==
    \E p, q \in Calls :
        /\ p # q
        /\ pc[p] = "data" /\ pc[q] = "errors"
        /\ out[p] # out[q]
        /\ ~out[p].Data.isNil
        /\ dest[q] # dest0[q]

\* The stage whose failure decides the returned error, by the order of the
\* pipeline, from the inputs of the call.
FirstFailure(p) ==
    CASE plan[p].variables = "unsupported" -> "encode"
      [] plan[p].ctx = "nil" \/ client.url = "://bad" -> "request"
      [] resp[p].err -> "transport"
      [] resp[p].StatusCode # StatusOK -> "status"
      [] ~WellFormed(Body(p)) -> "envelope"
      [] HasData(Body(p)) /\ DataDecode(p).err -> "decode"
      [] Len(Items(p)) > 0 -> "aggregate"
      [] OTHER -> "nil"

\* The collaborators a call invokes up to the stage that ends it.
StagesUpTo(p, kind) ==
    LET sent == <<"json.Encode", "http.NewRequest", "httpClient.Do">>
        decoded == IF HasData(Body(p)) THEN <<Decoder(p)>> ELSE <<>>
    IN  CASE kind = "encode" -> <<"json.Encode">>
          [] kind = "request" -> <<"json.Encode", "http.NewRequest">>
          [] kind = "transport" -> sent
          [] kind = "status" -> sent \o <<"io.ReadAll">>
          [] kind = "envelope" -> sent \o <<"json.Decode">>
          [] OTHER -> sent \o <<"json.Decode">> \o decoded

\* C9: error precedence follows the pipeline order: encoding, request
\* construction, transport, status, envelope decode, data decode, aggregate.
\* The first stage that fails decides the returned error and no later stage
\* runs; a failed data decode returns the decode error and drops the errors
\* list, also when that list is not empty.
C9_Precedence ==
    \A p \in Calls :
        Done(p)
        => /\ ret[p].kind = FirstFailure(p)
           /\ log[p] = StagesUpTo(p, FirstFailure(p))
           /\ ret[p].kind = "decode" => ret[p].list = <<>>

C9_Witness ==
    \E p \in Calls :
        /\ Done(p)
        /\ ret[p].kind = "decode"
        /\ Len(Items(p)) > 0
        /\ DecoderRuns(p) = 1

\* C10: when the envelope's data is null or absent the decoder is not invoked
\* in either mode and the destination keeps its prior content; the call
\* returns the aggregate when the errors list is not empty and nil otherwise.
C10_NullData ==
    \A p \in Calls :
        (Accepted(p) /\ WellFormed(Body(p)) /\ ~HasData(Body(p)))
        => /\ DecoderRuns(p) = 0
           /\ dest[p] = dest0[p]
           /\ ret[p] = (IF Len(Items(p)) > 0
                        THEN Aggregate(DecodeErrs(Items(p)))
                        ELSE Nil)

C10_Witness ==
    \E p \in Calls :
        /\ Accepted(p)
        /\ Body(p).form = "object"
        /\ Body(p).data.kind = "null"
        /\ ~merge[p]
        /\ dest0[p]["login"] = "old"
        /\ dest[p] = dest0[p]
        /\ ret[p].kind = "aggregate"

====
